---- MODULE Spec2Model ----
(***************************************************************************)
(* AsyncWorkQueue (src/core/async_work_queue.{h,cc}): a singleton pool of  *)
(* worker threads fed by a blocking FIFO of zero-argument tasks and a      *)
(* mutex-protected deque of bundled tasks that are split on demand.        *)
(*                                                                         *)
(* Threads are the workers spawned by Initialize, the producer threads     *)
(* that call the static API, and the thread that runs the destructor.      *)
(* Every action is one atomic step of one thread: one access to a shared   *)
(* object (worker_threads_, task_queue_, bundled_task_queue_, the two      *)
(* mutexes) together with the thread-local work around it.                 *)
(*                                                                         *)
(* worker_threads_.size() is read without a lock by AddTask,               *)
(* AddBundledTask, WorkerCount and SplitBundledTasks while Initialize may  *)
(* be appending to the vector; the model lets such a read return the       *)
(* length at any point of the spawn loop.                                  *)
(*                                                                         *)
(* SyncQueue (src/core/sync_queue.h) is not part of the sources at hand;   *)
(* Put, Get and Empty follow its contract: non-blocking enqueue at the     *)
(* back, blocking dequeue at the front, emptiness check.                   *)
(***************************************************************************)
EXTENDS Integers, Sequences, FiniteSets, TLC

\* ---------------------------------------------------------------- bounds
MaxWorkers == 2
NumProducers == 2
MaxTasks == 3
MaxBundles == 2
MaxInitCalls == 2
MaxEmpty == 1
Few == 1

\* The calls the producers make over a run: at most init calls of
\* Initialize, task callables handed to AddTask (by producers and by the
\* bodies of bundled tasks), empty of them empty std::functions, and bundle
\* calls of AddBundledTask.  A run with observe set also records which
\* bundled task's body submitted a task (sub_of) and which bundled tasks
\* had been accepted when the destructor began (b_at_shutdown).  With nest
\* set the bodies of bundled tasks may call AddBundledTask themselves.
Workloads ==
  { [init |-> MaxInitCalls, task |-> Few, bundle |-> Few, empty |-> MaxEmpty,
     observe |-> FALSE, nest |-> FALSE],
    [init |-> Few, task |-> MaxTasks, bundle |-> Few, empty |-> MaxEmpty,
     observe |-> FALSE, nest |-> FALSE],
    [init |-> Few, task |-> Few, bundle |-> MaxBundles, empty |-> MaxEmpty,
     observe |-> FALSE, nest |-> FALSE] }

\* what a caller can hand to AddTask: a std::function holding a target, or
\* an empty one (which compares equal to nullptr)
Callables == {"task", "empty"}

Workers == 1..MaxWorkers
Producers == (MaxWorkers + 1)..(MaxWorkers + NumProducers)
Threads == Workers \cup Producers
Tasks == 1..MaxTasks
Bundles == 1..MaxBundles
WorkerCounts == 0..MaxWorkers

\* an unlocked std::mutex has no owner
NoThread == 0
\* nullptr: the empty std::function the destructor puts on task_queue_
Null == 0

Max(a, b) == IF a >= b THEN a ELSE b

\* ----------------------------------------------------------------- state
VARIABLES
  worker_threads_,          \* std::vector of thread handles: worker ids in spawn order
  task_queue_,              \* SyncQueue<std::function<void(void)>>: task ids, Null
  bundled_task_queue_,      \* std::deque<std::function<void(size_t)>>: bundle ids
  mtx_,                     \* owner of mtx_
  init_mtx,                 \* owner of the function-static init_mtx
  pc,                       \* position of every thread
  arg,                      \* the call's argument / the task a worker holds
  cnt,                      \* loop counter of the running call
  local_bundled_task_queue, \* SplitBundledTasks' local deque, per thread
  thread_per_task,          \* SplitBundledTasks' local, per thread
  dtor_pc,                  \* position of the destructor
  dtor_cnt,                 \* loop counter of the destructor
  workload,                 \* the calls the producers may make, fixed at the start
  status,                   \* the Status the step just taken returned, "none" if it returned from no call
  init_calls,               \* Initialize calls made so far, numbered in call order
  invalid_at,               \* the Initialize calls that returned InvalidArgument
  effective,                \* worker_count of the call that spawned the threads
  spawners,                 \* number of Initialize calls that entered the spawn loop
  init_done,                \* some Initialize call has returned Success
  next_task,                \* callables handed to AddTask so far, numbered in call order
  rejected,                 \* tasks whose AddTask returned Unavailable
  empties,                  \* the callables handed to AddTask that were empty std::functions
  at_shutdown,              \* next_task when the destructor began
  executed_by,              \* per task: the workers that dequeued and invoked it
  sub_of,                   \* per task: the bundled task whose body handed it to AddTask, 0 if a producer did
  next_bundle,              \* callables handed to AddBundledTask so far
  b_rejected,               \* bundled tasks whose AddBundledTask returned Unavailable
  invoked,                  \* per bundled task: how often it was invoked
  pushed,                   \* the bundled tasks in the order of their push_back
  b_at_shutdown,            \* the bundled tasks whose AddBundledTask had returned Success when the destructor began
  frames,                   \* per thread: the split passes suspended in a bundled task's call of AddBundledTask
  swapped,                  \* per thread: size of the local deque right after its swap
  stable_read               \* per thread: thread_per_task was computed when no Initialize was spawning

shared == <<worker_threads_, task_queue_, bundled_task_queue_, mtx_, init_mtx>>
splitl == <<local_bundled_task_queue, thread_per_task, swapped, stable_read, frames>>
locals == <<pc, arg, cnt, splitl>>
dtor == <<dtor_pc, dtor_cnt, at_shutdown, b_at_shutdown>>
initg == <<workload, init_calls, invalid_at, effective, spawners, init_done>>
taskg == <<next_task, rejected, empties, executed_by, sub_of>>
bundleg == <<next_bundle, b_rejected, invoked, pushed>>
vars == <<shared, locals, dtor, status, initg, taskg, bundleg>>

\* ------------------------------------------------------------- SyncQueue
Empty(q) == q = <<>>
Put(q, item) == Append(q, item)
Front(q) == Head(q)
Pop(q) == Tail(q)

\* --------------------------------------------------------------- helpers
WorkerCount == Len(worker_threads_)

\* an Initialize call is inside its spawn loop
Spawning == \E p \in Producers : pc[p] = "init_spawn"

InInitialize(p) == pc[p] \in {"init_lock", "init_spawn", "init_ret"}

\* a producer is inside AddBundledTask (pushing, testing Empty, splitting)
InAddBundledTask(p) ==
  pc[p] \in {"ab_lock", "ab_push", "ab_empty", "sp_lock", "sp_swap", "sp_size", "bt_body"}

\* Idle producer threads are interchangeable: a new call is made by the
\* first idle one.
Caller(p) == pc[p] = "idle" /\ \A q \in Producers : q < p => pc[q] # "idle"

\* callables whose AddTask returned Success; those of them that hold a
\* target (tasks); the tasks accepted before the destructor began
Accepted == (1..next_task) \ rejected
AcceptedTasks == Accepted \ empties
AcceptedBeforeShutdown ==
  IF dtor_pc = "alive" THEN AcceptedTasks ELSE {t \in AcceptedTasks : t <= at_shutdown}

\* tasks a worker is running, and tasks whose body has returned
Running == {arg[w] : w \in {v \in Workers : pc[v] = "run"}}
Finished == {t \in Tasks : executed_by[t] # <<>>} \ Running

\* bundled tasks appended to bundled_task_queue_
BundlesAccepted ==
  {b \in (1..next_bundle) \ b_rejected :
     ~\E th \in Threads : pc[th] \in {"ab_lock", "ab_push"} /\ arg[th] = b}

\* thread th is inside the AddBundledTask call that was handed bundled task b
InCall(th, b) ==
  \/ /\ arg[th] = b
     /\ pc[th] \in {"ab_lock", "ab_push", "ab_empty", "sp_lock", "sp_swap", "sp_size",
                    "bt_body"}
  \/ \E i \in 1..Len(frames[th]) : frames[th][i].arg = b

\* bundled tasks whose AddBundledTask call has returned Success
BundlesReturned == {b \in BundlesAccepted : \A th \in Threads : ~InCall(th, b)}

InitState ==
  /\ worker_threads_ = <<>>
  /\ task_queue_ = <<>>
  /\ bundled_task_queue_ = <<>>
  /\ mtx_ = NoThread
  /\ init_mtx = NoThread
  /\ pc = [th \in Threads |-> IF th \in Workers THEN "unborn" ELSE "idle"]
  /\ arg = [th \in Threads |-> 0]
  /\ cnt = [th \in Threads |-> 0]
  /\ local_bundled_task_queue = [th \in Threads |-> <<>>]
  /\ thread_per_task = [th \in Threads |-> 0]
  /\ swapped = [th \in Threads |-> 0]
  /\ stable_read = [th \in Threads |-> FALSE]
  /\ dtor_pc = "alive"
  /\ dtor_cnt = 0
  /\ at_shutdown = 0
  /\ status = "none"
  /\ init_calls = 0
  /\ invalid_at = {}
  /\ effective = 0
  /\ spawners = 0
  /\ init_done = FALSE
  /\ next_task = 0
  /\ rejected = {}
  /\ empties = {}
  /\ executed_by = [t \in Tasks |-> <<>>]
  /\ sub_of = [t \in Tasks |-> 0]
  /\ next_bundle = 0
  /\ b_rejected = {}
  /\ invoked = [b \in Bundles |-> 0]
  /\ pushed = <<>>
  /\ b_at_shutdown = {}
  /\ frames = [th \in Threads |-> <<>>]

Init == InitState /\ workload \in Workloads

\* the workload with the most Initialize calls, AddTask calls, AddBundledTask calls
InitInitialize ==
  InitState /\ workload = [init |-> MaxInitCalls, task |-> Few, bundle |-> Few,
                           empty |-> MaxEmpty, observe |-> FALSE, nest |-> FALSE]
InitTasks ==
  InitState /\ workload = [init |-> Few, task |-> MaxTasks, bundle |-> Few,
                           empty |-> MaxEmpty, observe |-> FALSE, nest |-> FALSE]
InitBundles ==
  InitState /\ workload = [init |-> Few, task |-> Few, bundle |-> MaxBundles,
                           empty |-> MaxEmpty, observe |-> FALSE, nest |-> FALSE]
\* bundled tasks whose bodies may call AddBundledTask
InitNested ==
  InitState /\ workload = [init |-> Few, task |-> Few, bundle |-> MaxBundles,
                           empty |-> 0, observe |-> FALSE, nest |-> TRUE]
\* one bundled task and the tasks its body submits, observed; every
\* callable holds a target
InitObserved ==
  InitState /\ workload = [init |-> Few, task |-> Few + 1, bundle |-> Few,
                           empty |-> 0, observe |-> TRUE, nest |-> FALSE]
\* workloads small enough for the checks of eventual execution and
\* termination, with and without an empty std::function among the callables
InitFair ==
  InitState /\ workload = [init |-> Few, task |-> Few + 1, bundle |-> Few,
                           empty |-> MaxEmpty, observe |-> FALSE, nest |-> FALSE]
InitFairTasks ==
  InitState /\ workload = [init |-> Few, task |-> Few + 1, bundle |-> Few,
                           empty |-> 0, observe |-> FALSE, nest |-> FALSE]

\* ------------------------------------------------------------ Initialize
\* Initialize without the test of lines 57-61
InitializeCall_NoCheck(p, worker_count) ==
  /\ Caller(p)
  /\ dtor_pc = "alive"
  /\ init_calls < workload.init
  /\ init_calls' = init_calls + 1
  /\ pc' = [pc EXCEPT ![p] = "init_lock"]
  /\ arg' = [arg EXCEPT ![p] = worker_count]
  /\ status' = "none"
  /\ UNCHANGED <<shared, cnt, splitl, dtor, workload, invalid_at, effective, spawners,
                 init_done, taskg, bundleg>>

\* lines 55-61: the argument check; a valid call goes on to lock init_mtx
InitializeCall(p, worker_count) ==
  /\ Caller(p)
  /\ dtor_pc = "alive"
  /\ init_calls < workload.init
  /\ init_calls' = init_calls + 1
  /\ IF worker_count < 1
       THEN /\ status' = "INVALID_ARG"
            /\ invalid_at' = invalid_at \cup {init_calls + 1}
            /\ UNCHANGED <<pc, arg>>
       ELSE /\ pc' = [pc EXCEPT ![p] = "init_lock"]
            /\ arg' = [arg EXCEPT ![p] = worker_count]
            /\ status' = "none"
            /\ UNCHANGED invalid_at
  /\ UNCHANGED <<shared, cnt, splitl, dtor, workload, effective, spawners, init_done,
                 taskg, bundleg>>

\* Initialize without the test of line 64: every call spawns
InitializeLock_Always(p) ==
  /\ pc[p] = "init_lock"
  /\ init_mtx = NoThread
  /\ init_mtx' = p
  /\ pc' = [pc EXCEPT ![p] = "init_spawn"]
  /\ spawners' = spawners + 1
  /\ effective' = arg[p]
  /\ status' = "none"
  /\ UNCHANGED <<worker_threads_, task_queue_, bundled_task_queue_, mtx_, arg, cnt,
                 splitl, dtor, workload, init_calls, invalid_at, init_done, taskg, bundleg>>

\* Initialize without init_mtx (lines 62-63)
InitializeLock_NoMutex(p) ==
  /\ pc[p] = "init_lock"
  /\ IF Len(worker_threads_) = 0
       THEN /\ pc' = [pc EXCEPT ![p] = "init_spawn"]
            /\ spawners' = spawners + 1
            /\ effective' = arg[p]
       ELSE /\ pc' = [pc EXCEPT ![p] = "init_ret"]
            /\ UNCHANGED <<spawners, effective>>
  /\ status' = "none"
  /\ UNCHANGED <<shared, arg, cnt, splitl, dtor, workload, init_calls, invalid_at,
                 init_done, taskg, bundleg>>

\* lines 62-64: lock_guard on init_mtx, then the test worker_threads_.size() == 0
InitializeLock(p) ==
  /\ pc[p] = "init_lock"
  /\ init_mtx = NoThread
  /\ init_mtx' = p
  /\ IF Len(worker_threads_) = 0
       THEN /\ pc' = [pc EXCEPT ![p] = "init_spawn"]
            /\ spawners' = spawners + 1
            /\ effective' = arg[p]
       ELSE /\ pc' = [pc EXCEPT ![p] = "init_ret"]
            /\ UNCHANGED <<spawners, effective>>
  /\ status' = "none"
  /\ UNCHANGED <<worker_threads_, task_queue_, bundled_task_queue_, mtx_, arg, cnt,
                 splitl, dtor, workload, init_calls, invalid_at, init_done, taskg, bundleg>>

\* lines 65-68: one iteration of the spawn loop; the new thread starts WorkThread
InitializeSpawn(p) ==
  /\ pc[p] = "init_spawn"
  /\ LET w == Len(worker_threads_) + 1 IN
       /\ worker_threads_' = Append(worker_threads_, w)
       /\ pc' = [pc EXCEPT ![w] = "top",
                           ![p] = IF cnt[p] + 1 < arg[p] THEN "init_spawn" ELSE "init_ret"]
  /\ cnt' = [cnt EXCEPT ![p] = cnt[p] + 1]
  /\ status' = "none"
  /\ UNCHANGED <<task_queue_, bundled_task_queue_, mtx_, init_mtx, arg, splitl, dtor,
                 initg, taskg, bundleg>>

\* line 70 and the end of lk's scope
InitializeReturn(p) ==
  /\ pc[p] = "init_ret"
  /\ init_mtx' = NoThread
  /\ status' = "Success"
  /\ init_done' = TRUE
  /\ pc' = [pc EXCEPT ![p] = "idle"]
  /\ arg' = [arg EXCEPT ![p] = 0]
  /\ cnt' = [cnt EXCEPT ![p] = 0]
  /\ UNCHANGED <<worker_threads_, task_queue_, bundled_task_queue_, mtx_, splitl,
                 dtor, workload, init_calls, invalid_at, effective, spawners, taskg,
                 bundleg>>

\* --------------------------------------------------------------- AddTask
\* AddTask without the test of lines 82-86
AddTask_NoCheck(p, fn) ==
  /\ Caller(p)
  /\ dtor_pc # "gone"
  /\ next_task < workload.task
  /\ fn = "empty" => Cardinality(empties) < workload.empty
  /\ next_task' = next_task + 1
  /\ empties' = IF fn = "empty" THEN empties \cup {next_task + 1} ELSE empties
  /\ task_queue_' = Put(task_queue_, IF fn = "empty" THEN Null ELSE next_task + 1)
  /\ status' = "Success"
  /\ UNCHANGED <<worker_threads_, bundled_task_queue_, mtx_, init_mtx, locals, dtor,
                 initg, rejected, executed_by, sub_of, bundleg>>

\* AddTask putting the task at the front of task_queue_
AddTask_PutFront(p, fn) ==
  /\ Caller(p)
  /\ dtor_pc # "gone"
  /\ next_task < workload.task
  /\ fn = "empty" => Cardinality(empties) < workload.empty
  /\ LET t == next_task + 1 IN
       /\ next_task' = t
       /\ empties' = IF fn = "empty" THEN empties \cup {t} ELSE empties
       /\ IF Len(worker_threads_) = 0
            THEN /\ status' = "UNAVAILABLE"
                 /\ rejected' = rejected \cup {t}
                 /\ UNCHANGED task_queue_
            ELSE /\ task_queue_' = <<IF fn = "empty" THEN Null ELSE t>> \o task_queue_
                 /\ status' = "Success"
                 /\ UNCHANGED rejected
  /\ UNCHANGED <<worker_threads_, bundled_task_queue_, mtx_, init_mtx, locals, dtor,
                 initg, executed_by, sub_of, bundleg>>

\* lines 80-89.  The test of worker_threads_.size() and the Put are one
\* step: the vector never becomes empty again, so a test that passed still
\* passes when the Put happens.  The callable is put as it is: an empty
\* std::function is the same queue item as the destructor's nullptr.
AddTask(p, fn) ==
  /\ Caller(p)
  /\ dtor_pc # "gone"
  /\ next_task < workload.task
  /\ fn = "empty" => Cardinality(empties) < workload.empty
  /\ LET t == next_task + 1 IN
       /\ next_task' = t
       /\ empties' = IF fn = "empty" THEN empties \cup {t} ELSE empties
       /\ IF Len(worker_threads_) = 0
            THEN /\ status' = "UNAVAILABLE"
                 /\ rejected' = rejected \cup {t}
                 /\ UNCHANGED task_queue_
            ELSE /\ task_queue_' = Put(task_queue_, IF fn = "empty" THEN Null ELSE t)
                 /\ status' = "Success"
                 /\ UNCHANGED rejected
  /\ UNCHANGED <<worker_threads_, bundled_task_queue_, mtx_, init_mtx, locals, dtor,
                 initg, executed_by, sub_of, bundleg>>

\* -------------------------------------------------------- AddBundledTask
\* A bundled task's body may call AddBundledTask itself; the split pass it
\* runs in is then suspended below the call: its locals are kept in frames
\* and the thread's current locals are those of the call.
Nested(th) == frames[th] # <<>>
Outer(th) == Head(frames[th])

\* lines 107 and 129: the call of AddBundledTask, or a worker's split pass,
\* returns.  A producer is idle again, a worker goes on to Get (line 138),
\* and a call made by a bundled task's body returns Success into that body.
Return(th) ==
  /\ IF Nested(th)
       THEN /\ pc' = [pc EXCEPT ![th] = "bt_body"]
            /\ status' = "Success"
            /\ arg' = [arg EXCEPT ![th] = Outer(th).arg]
            /\ cnt' = [cnt EXCEPT ![th] = Outer(th).cnt]
            /\ local_bundled_task_queue' =
                 [local_bundled_task_queue EXCEPT ![th] = Outer(th).local]
            /\ thread_per_task' = [thread_per_task EXCEPT ![th] = Outer(th).tpt]
            /\ swapped' = [swapped EXCEPT ![th] = Outer(th).swapped]
            /\ stable_read' = [stable_read EXCEPT ![th] = Outer(th).stable]
            /\ frames' = [frames EXCEPT ![th] = Tail(frames[th])]
       ELSE /\ pc' = [pc EXCEPT ![th] = IF th \in Workers THEN "get" ELSE "idle"]
            /\ status' = IF th \in Producers THEN "Success" ELSE "none"
            /\ arg' = [arg EXCEPT ![th] = 0]
            /\ cnt' = [cnt EXCEPT ![th] = 0]
            /\ local_bundled_task_queue' = [local_bundled_task_queue EXCEPT ![th] = <<>>]
            /\ thread_per_task' = [thread_per_task EXCEPT ![th] = 0]
            /\ swapped' = [swapped EXCEPT ![th] = 0]
            /\ stable_read' = [stable_read EXCEPT ![th] = FALSE]
            /\ UNCHANGED frames

\* lines 94-99: the test worker_threads_.size() == 0.  The caller is an
\* idle producer, or a thread running the body of a bundled task.
AddBundledTaskCall(th) ==
  /\ IF pc[th] = "bt_body" THEN workload.nest ELSE Caller(th)
  /\ dtor_pc # "gone"
  /\ next_bundle < workload.bundle
  /\ LET b == next_bundle + 1 IN
       /\ next_bundle' = b
       /\ IF Len(worker_threads_) = 0
            THEN /\ status' = "UNAVAILABLE"
                 /\ b_rejected' = b_rejected \cup {b}
                 /\ UNCHANGED <<pc, arg, cnt, splitl>>
            ELSE /\ pc' = [pc EXCEPT ![th] = "ab_lock"]
                 /\ arg' = [arg EXCEPT ![th] = b]
                 /\ status' = "none"
                 /\ UNCHANGED b_rejected
                 /\ IF pc[th] = "bt_body"
                      THEN /\ frames' =
                                [frames EXCEPT ![th] =
                                   <<[arg |-> arg[th], cnt |-> cnt[th],
                                      local |-> local_bundled_task_queue[th],
                                      tpt |-> thread_per_task[th],
                                      swapped |-> swapped[th],
                                      stable |-> stable_read[th]]>> \o frames[th]]
                           /\ cnt' = [cnt EXCEPT ![th] = 0]
                           /\ local_bundled_task_queue' =
                                [local_bundled_task_queue EXCEPT ![th] = <<>>]
                           /\ thread_per_task' = [thread_per_task EXCEPT ![th] = 0]
                           /\ swapped' = [swapped EXCEPT ![th] = 0]
                           /\ stable_read' = [stable_read EXCEPT ![th] = FALSE]
                      ELSE UNCHANGED <<cnt, splitl>>
  /\ UNCHANGED <<shared, dtor, initg, taskg, invoked, pushed>>

\* line 101: lock_guard on mtx_
AddBundledTaskLock(th) ==
  /\ pc[th] = "ab_lock"
  /\ mtx_ = NoThread
  /\ mtx_' = th
  /\ pc' = [pc EXCEPT ![th] = "ab_push"]
  /\ status' = "none"
  /\ UNCHANGED <<worker_threads_, task_queue_, bundled_task_queue_, init_mtx, arg, cnt,
                 splitl, dtor, initg, taskg, bundleg>>

\* lines 102-103: push_back and the end of lk's scope
AddBundledTaskPush(th) ==
  /\ pc[th] = "ab_push"
  /\ bundled_task_queue_' = Append(bundled_task_queue_, arg[th])
  /\ pushed' = Append(pushed, arg[th])
  /\ mtx_' = NoThread
  /\ pc' = [pc EXCEPT ![th] = "ab_empty"]
  /\ status' = "none"
  /\ UNCHANGED <<worker_threads_, task_queue_, init_mtx, arg, cnt, splitl, dtor, initg,
                 taskg, next_bundle, b_rejected, invoked>>

\* AddBundledTask splitting whatever it observes of task_queue_
AddBundledTaskEmpty_Always(th) ==
  /\ pc[th] = "ab_empty"
  /\ pc' = [pc EXCEPT ![th] = "sp_lock"]
  /\ status' = "none"
  /\ UNCHANGED <<shared, arg, cnt, splitl, dtor, initg, taskg, bundleg>>

\* lines 104-107: split on the calling thread if task_queue_ is seen empty
AddBundledTaskEmpty(th) ==
  /\ pc[th] = "ab_empty"
  /\ IF Empty(task_queue_)
       THEN /\ pc' = [pc EXCEPT ![th] = "sp_lock"]
            /\ status' = "none"
            /\ UNCHANGED <<arg, cnt, splitl>>
       ELSE Return(th)
  /\ UNCHANGED <<shared, dtor, initg, taskg, bundleg>>

\* ----------------------------------------------------- SplitBundledTasks
\* line 115: lock_guard on mtx_
SplitLock(th) ==
  /\ pc[th] = "sp_lock"
  /\ mtx_ = NoThread
  /\ mtx_' = th
  /\ pc' = [pc EXCEPT ![th] = "sp_swap"]
  /\ status' = "none"
  /\ UNCHANGED <<worker_threads_, task_queue_, bundled_task_queue_, init_mtx, arg, cnt,
                 splitl, dtor, initg, taskg, bundleg>>

\* SplitBundledTasks copying the shared deque instead of swapping it out
SplitSwap_Copy(th) ==
  /\ pc[th] = "sp_swap"
  /\ IF bundled_task_queue_ # <<>>
       THEN /\ local_bundled_task_queue' =
                 [local_bundled_task_queue EXCEPT ![th] = bundled_task_queue_]
            /\ swapped' = [swapped EXCEPT ![th] = Len(bundled_task_queue_)]
       ELSE UNCHANGED <<local_bundled_task_queue, swapped>>
  /\ mtx_' = NoThread
  /\ pc' = [pc EXCEPT ![th] = "sp_size"]
  /\ status' = "none"
  /\ UNCHANGED <<worker_threads_, task_queue_, bundled_task_queue_, init_mtx, arg, cnt,
                 thread_per_task, stable_read, frames, dtor, initg, taskg, bundleg>>

\* SplitBundledTasks keeping mtx_ locked while it invokes the bundled tasks
SplitSwap_KeepLock(th) ==
  /\ pc[th] = "sp_swap"
  /\ IF bundled_task_queue_ # <<>>
       THEN /\ local_bundled_task_queue' =
                 [local_bundled_task_queue EXCEPT ![th] = bundled_task_queue_]
            /\ bundled_task_queue_' = local_bundled_task_queue[th]
            /\ swapped' = [swapped EXCEPT ![th] = Len(bundled_task_queue_)]
            /\ UNCHANGED mtx_
       ELSE /\ mtx_' = NoThread
            /\ UNCHANGED <<local_bundled_task_queue, bundled_task_queue_, swapped>>
  /\ pc' = [pc EXCEPT ![th] = "sp_size"]
  /\ status' = "none"
  /\ UNCHANGED <<worker_threads_, task_queue_, init_mtx, arg, cnt, thread_per_task,
                 stable_read, frames, dtor, initg, taskg, bundleg>>

\* SplitBundledTasks taking the shared deque in reverse order
SplitSwap_Reversed(th) ==
  /\ pc[th] = "sp_swap"
  /\ IF bundled_task_queue_ # <<>>
       THEN /\ local_bundled_task_queue' =
                 [local_bundled_task_queue EXCEPT ![th] =
                    [i \in 1..Len(bundled_task_queue_) |->
                       bundled_task_queue_[Len(bundled_task_queue_) + 1 - i]]]
            /\ bundled_task_queue_' = local_bundled_task_queue[th]
            /\ swapped' = [swapped EXCEPT ![th] = Len(bundled_task_queue_)]
       ELSE UNCHANGED <<local_bundled_task_queue, bundled_task_queue_, swapped>>
  /\ mtx_' = NoThread
  /\ pc' = [pc EXCEPT ![th] = "sp_size"]
  /\ status' = "none"
  /\ UNCHANGED <<worker_threads_, task_queue_, init_mtx, arg, cnt, thread_per_task,
                 stable_read, frames, dtor, initg, taskg, bundleg>>

\* lines 118-121: swap the shared deque with the (empty) local one, unlock
SplitSwap(th) ==
  /\ pc[th] = "sp_swap"
  /\ IF bundled_task_queue_ # <<>>
       THEN /\ local_bundled_task_queue' =
                 [local_bundled_task_queue EXCEPT ![th] = bundled_task_queue_]
            /\ bundled_task_queue_' = local_bundled_task_queue[th]
            /\ swapped' = [swapped EXCEPT ![th] = Len(bundled_task_queue_)]
       ELSE UNCHANGED <<local_bundled_task_queue, bundled_task_queue_, swapped>>
  /\ mtx_' = NoThread
  /\ pc' = [pc EXCEPT ![th] = "sp_size"]
  /\ status' = "none"
  /\ UNCHANGED <<worker_threads_, task_queue_, init_mtx, arg, cnt, thread_per_task,
                 stable_read, frames, dtor, initg, taskg, bundleg>>

\* SplitBundledTasks handing every bundled task the whole pool
SplitSize_WholePool(th) ==
  /\ pc[th] = "sp_size"
  /\ IF local_bundled_task_queue[th] = <<>>
       THEN /\ Return(th)
            /\ UNCHANGED invoked
       ELSE LET b == Head(local_bundled_task_queue[th]) IN
            /\ thread_per_task' =
                 [thread_per_task EXCEPT ![th] = Max(1, Len(worker_threads_))]
            /\ stable_read' = [stable_read EXCEPT ![th] = ~Spawning]
            /\ invoked' = [invoked EXCEPT ![b] = invoked[b] + 1]
            /\ pc' = [pc EXCEPT ![th] = "bt_body"]
            /\ status' = "none"
            /\ UNCHANGED <<arg, cnt, local_bundled_task_queue, swapped, frames>>
  /\ UNCHANGED <<shared, dtor, initg, taskg, next_bundle, b_rejected, pushed>>

\* SplitBundledTasks dividing the number of bundled tasks by the worker count
SplitSize_Swapped(th) ==
  /\ pc[th] = "sp_size"
  /\ IF local_bundled_task_queue[th] = <<>>
       THEN /\ Return(th)
            /\ UNCHANGED invoked
       ELSE LET b == Head(local_bundled_task_queue[th]) IN
            /\ thread_per_task' =
                 [thread_per_task EXCEPT ![th] =
                    Max(1, Len(local_bundled_task_queue[th]) \div Len(worker_threads_))]
            /\ stable_read' = [stable_read EXCEPT ![th] = ~Spawning]
            /\ invoked' = [invoked EXCEPT ![b] = invoked[b] + 1]
            /\ pc' = [pc EXCEPT ![th] = "bt_body"]
            /\ status' = "none"
            /\ UNCHANGED <<arg, cnt, local_bundled_task_queue, swapped, frames>>
  /\ UNCHANGED <<shared, dtor, initg, taskg, next_bundle, b_rejected, pushed>>

\* SplitBundledTasks dividing without the max of line 123
SplitSize_NoMax(th) ==
  /\ pc[th] = "sp_size"
  /\ IF local_bundled_task_queue[th] = <<>>
       THEN /\ Return(th)
            /\ UNCHANGED invoked
       ELSE LET b == Head(local_bundled_task_queue[th]) IN
            /\ thread_per_task' =
                 [thread_per_task EXCEPT ![th] =
                    Len(worker_threads_) \div Len(local_bundled_task_queue[th])]
            /\ stable_read' = [stable_read EXCEPT ![th] = ~Spawning]
            /\ invoked' = [invoked EXCEPT ![b] = invoked[b] + 1]
            /\ pc' = [pc EXCEPT ![th] = "bt_body"]
            /\ status' = "none"
            /\ UNCHANGED <<arg, cnt, local_bundled_task_queue, swapped, frames>>
  /\ UNCHANGED <<shared, dtor, initg, taskg, next_bundle, b_rejected, pushed>>

\* SplitBundledTasks trying again, instead of returning, when it swapped nothing
SplitSize_Retry(th) ==
  /\ pc[th] = "sp_size"
  /\ IF local_bundled_task_queue[th] = <<>>
       THEN /\ pc' = [pc EXCEPT ![th] = "sp_lock"]
            /\ status' = "none"
            /\ UNCHANGED <<arg, cnt, splitl, invoked>>
       ELSE LET b == Head(local_bundled_task_queue[th]) IN
            /\ thread_per_task' =
                 [thread_per_task EXCEPT ![th] =
                    Max(1, Len(worker_threads_) \div Len(local_bundled_task_queue[th]))]
            /\ stable_read' = [stable_read EXCEPT ![th] = ~Spawning]
            /\ invoked' = [invoked EXCEPT ![b] = invoked[b] + 1]
            /\ pc' = [pc EXCEPT ![th] = "bt_body"]
            /\ status' = "none"
            /\ UNCHANGED <<arg, cnt, local_bundled_task_queue, swapped, frames>>
  /\ UNCHANGED <<shared, dtor, initg, taskg, next_bundle, b_rejected, pushed>>

\* lines 122-125: nothing to do, or compute thread_per_task and invoke the
\* front of the local deque with it
SplitSize(th) ==
  /\ pc[th] = "sp_size"
  /\ IF local_bundled_task_queue[th] = <<>>
       THEN /\ Return(th)
            /\ UNCHANGED invoked
       ELSE LET b == Head(local_bundled_task_queue[th]) IN
            /\ thread_per_task' =
                 [thread_per_task EXCEPT ![th] =
                    Max(1, Len(worker_threads_) \div Len(local_bundled_task_queue[th]))]
            /\ stable_read' = [stable_read EXCEPT ![th] = ~Spawning]
            /\ invoked' = [invoked EXCEPT ![b] = invoked[b] + 1]
            /\ pc' = [pc EXCEPT ![th] = "bt_body"]
            /\ status' = "none"
            /\ UNCHANGED <<arg, cnt, local_bundled_task_queue, swapped, frames>>
  /\ UNCHANGED <<shared, dtor, initg, taskg, next_bundle, b_rejected, pushed>>

\* the body of a bundled task calls AddTask (lines 80-89) with one more
\* sub-task, at most thread_per_task times
BodyAddTask(th) ==
  /\ pc[th] = "bt_body"
  /\ cnt[th] < thread_per_task[th]
  /\ next_task < workload.task
  /\ LET t == next_task + 1 IN
       /\ next_task' = t
       /\ sub_of' = IF workload.observe
                      THEN [sub_of EXCEPT ![t] = Head(local_bundled_task_queue[th])]
                      ELSE sub_of
       /\ IF Len(worker_threads_) = 0
            THEN /\ rejected' = rejected \cup {t}
                 /\ UNCHANGED task_queue_
            ELSE /\ task_queue_' = Put(task_queue_, t)
                 /\ UNCHANGED rejected
  /\ cnt' = [cnt EXCEPT ![th] = cnt[th] + 1]
  /\ status' = "none"
  /\ UNCHANGED <<worker_threads_, bundled_task_queue_, mtx_, init_mtx, pc, arg, splitl,
                 dtor, initg, empties, executed_by, bundleg>>

\* the body returns; line 126 pops it and the loop of line 124 either
\* invokes the next bundled task (line 125) or ends
BodyReturn(th) ==
  /\ pc[th] = "bt_body"
  /\ LET rest == Tail(local_bundled_task_queue[th]) IN
       IF rest = <<>>
         THEN /\ Return(th)
              /\ UNCHANGED invoked
         ELSE /\ local_bundled_task_queue' = [local_bundled_task_queue EXCEPT ![th] = rest]
              /\ invoked' = [invoked EXCEPT ![Head(rest)] = invoked[Head(rest)] + 1]
              /\ cnt' = [cnt EXCEPT ![th] = 0]
              /\ status' = "none"
              /\ UNCHANGED <<pc, arg, thread_per_task, swapped, stable_read, frames>>
  /\ UNCHANGED <<shared, dtor, initg, taskg, next_bundle, b_rejected, pushed>>

\* ------------------------------------------------------------ WorkThread
\* WorkThread splitting the bundled tasks whatever it observes of task_queue_
WorkThreadTop_Always(w) ==
  /\ pc[w] = "top"
  /\ pc' = [pc EXCEPT ![w] = "sp_lock"]
  /\ status' = "none"
  /\ UNCHANGED <<shared, arg, cnt, splitl, dtor, initg, taskg, bundleg>>

\* lines 135-137: split if task_queue_ is seen empty
WorkThreadTop(w) ==
  /\ pc[w] = "top"
  /\ pc' = [pc EXCEPT ![w] = IF Empty(task_queue_) THEN "sp_lock" ELSE "get"]
  /\ status' = "none"
  /\ UNCHANGED <<shared, arg, cnt, splitl, dtor, initg, taskg, bundleg>>

\* WorkThread reading the front of task_queue_ without removing it
WorkThreadGet_NoPop(w) ==
  /\ pc[w] = "get"
  /\ ~Empty(task_queue_)
  /\ LET task == Front(task_queue_) IN
       IF task # Null
         THEN /\ pc' = [pc EXCEPT ![w] = "run"]
              /\ arg' = [arg EXCEPT ![w] = task]
              /\ executed_by' = [executed_by EXCEPT ![task] = Append(executed_by[task], w)]
         ELSE /\ pc' = [pc EXCEPT ![w] = "done"]
              /\ UNCHANGED <<arg, executed_by>>
  /\ status' = "none"
  /\ UNCHANGED <<shared, cnt, splitl, dtor, initg, next_task, rejected, empties,
                 sub_of, bundleg>>

\* lines 138-143: Get blocks while the queue is empty; a non-null task is
\* invoked, nullptr ends the loop
WorkThreadGet(w) ==
  /\ pc[w] = "get"
  /\ ~Empty(task_queue_)
  /\ LET task == Front(task_queue_) IN
       /\ task_queue_' = Pop(task_queue_)
       /\ IF task # Null
            THEN /\ pc' = [pc EXCEPT ![w] = "run"]
                 /\ arg' = [arg EXCEPT ![w] = task]
                 /\ executed_by' = [executed_by EXCEPT ![task] = Append(executed_by[task], w)]
            ELSE /\ pc' = [pc EXCEPT ![w] = "done"]
                 /\ UNCHANGED <<arg, executed_by>>
  /\ status' = "none"
  /\ UNCHANGED <<worker_threads_, bundled_task_queue_, mtx_, init_mtx, cnt, splitl,
                 dtor, initg, next_task, rejected, empties, sub_of, bundleg>>

\* line 140: task() returns
WorkThreadRun(w) ==
  /\ pc[w] = "run"
  /\ pc' = [pc EXCEPT ![w] = "top"]
  /\ arg' = [arg EXCEPT ![w] = 0]
  /\ status' = "none"
  /\ UNCHANGED <<shared, cnt, splitl, dtor, initg, taskg, bundleg>>

\* ------------------------------------------------------- ~AsyncWorkQueue
\* The destructor of the function-static singleton runs at process exit,
\* once, and not while a thread is still inside Initialize.
DtorBegin ==
  /\ dtor_pc = "alive"
  /\ \A p \in Producers : ~InInitialize(p)
  /\ dtor_pc' = IF Len(worker_threads_) = 0 THEN "gone" ELSE "put"
  /\ dtor_cnt' = 0
  /\ at_shutdown' = next_task
  /\ b_at_shutdown' = IF workload.observe THEN BundlesReturned ELSE {}
  /\ status' = "none"
  /\ UNCHANGED <<shared, locals, initg, taskg, bundleg>>

\* the destructor putting its sentinels at the front of task_queue_
DtorPut_Front ==
  /\ dtor_pc = "put"
  /\ task_queue_' = <<Null>> \o task_queue_
  /\ IF dtor_cnt + 1 < Len(worker_threads_)
       THEN /\ dtor_cnt' = dtor_cnt + 1
            /\ UNCHANGED dtor_pc
       ELSE /\ dtor_cnt' = 0
            /\ dtor_pc' = "join"
  /\ status' = "none"
  /\ UNCHANGED <<worker_threads_, bundled_task_queue_, mtx_, init_mtx, locals,
                 at_shutdown, b_at_shutdown, initg, taskg, bundleg>>

\* lines 39-41: one Put(nullptr) per element of worker_threads_
DtorPut ==
  /\ dtor_pc = "put"
  /\ task_queue_' = Put(task_queue_, Null)
  /\ IF dtor_cnt + 1 < Len(worker_threads_)
       THEN /\ dtor_cnt' = dtor_cnt + 1
            /\ UNCHANGED dtor_pc
       ELSE /\ dtor_cnt' = 0
            /\ dtor_pc' = "join"
  /\ status' = "none"
  /\ UNCHANGED <<worker_threads_, bundled_task_queue_, mtx_, init_mtx, locals,
                 at_shutdown, b_at_shutdown, initg, taskg, bundleg>>

\* the destructor not waiting for the worker it joins
DtorJoin_NoWait ==
  /\ dtor_pc = "join"
  /\ IF dtor_cnt + 1 < Len(worker_threads_)
       THEN /\ dtor_cnt' = dtor_cnt + 1
            /\ UNCHANGED dtor_pc
       ELSE /\ dtor_cnt' = 0
            /\ dtor_pc' = "gone"
  /\ status' = "none"
  /\ UNCHANGED <<shared, locals, at_shutdown, b_at_shutdown, initg, taskg, bundleg>>

\* lines 42-44: join every worker in turn
DtorJoin ==
  /\ dtor_pc = "join"
  /\ pc[worker_threads_[dtor_cnt + 1]] = "done"
  /\ IF dtor_cnt + 1 < Len(worker_threads_)
       THEN /\ dtor_cnt' = dtor_cnt + 1
            /\ UNCHANGED dtor_pc
       ELSE /\ dtor_cnt' = 0
            /\ dtor_pc' = "gone"
  /\ status' = "none"
  /\ UNCHANGED <<shared, locals, at_shutdown, b_at_shutdown, initg, taskg, bundleg>>

\* --------------------------------------------------------- specification
ProducerStep(p) ==
  \/ \E n \in WorkerCounts : InitializeCall(p, n)
  \/ InitializeLock(p)
  \/ InitializeSpawn(p)
  \/ InitializeReturn(p)
  \/ \E fn \in Callables : AddTask(p, fn)

\* AddBundledTask is called by producers and by the bodies of bundled tasks
BundleStep(th) ==
  \/ AddBundledTaskCall(th)
  \/ AddBundledTaskLock(th)
  \/ AddBundledTaskPush(th)
  \/ AddBundledTaskEmpty(th)

SplitStep(th) ==
  \/ SplitLock(th)
  \/ SplitSwap(th)
  \/ SplitSize(th)
  \/ BodyAddTask(th)
  \/ BodyReturn(th)

WorkerStep(w) ==
  \/ WorkThreadTop(w)
  \/ WorkThreadGet(w)
  \/ WorkThreadRun(w)

DtorStep == DtorBegin \/ DtorPut \/ DtorJoin

Next ==
  \/ \E p \in Producers : ProducerStep(p)
  \/ \E th \in Threads : BundleStep(th)
  \/ \E th \in Threads : SplitStep(th)
  \/ \E w \in Workers : WorkerStep(w)
  \/ DtorStep

Spec == Init /\ [][Next]_vars
SpecInitialize == InitInitialize /\ [][Next]_vars
SpecTasks == InitTasks /\ [][Next]_vars
SpecBundles == InitBundles /\ [][Next]_vars
SpecNested == InitNested /\ [][Next]_vars

\* Threads are scheduled: while some thread can take the next step of what
\* it is doing, a step is taken.  (Every thread that can run is eventually
\* run, which implies this.)  Nothing obliges a producer to make a further
\* call, nor the process to exit.
Continue(th) ==
  \/ InitializeLock(th)
  \/ InitializeSpawn(th)
  \/ InitializeReturn(th)
  \/ AddBundledTaskLock(th)
  \/ AddBundledTaskPush(th)
  \/ AddBundledTaskEmpty(th)
  \/ SplitStep(th)

Progress ==
  \/ \E w \in Workers : WorkerStep(w)
  \/ \E th \in Threads : Continue(th)
  \/ DtorPut
  \/ DtorJoin

Fairness == WF_vars(Progress)

FairSpec == InitFair /\ [][Next]_vars /\ Fairness
FairSpecTasks == InitFairTasks /\ [][Next]_vars /\ Fairness
FairSpecObserved == InitObserved /\ [][Next]_vars /\ Fairness

\* ----------------------------------------------------------------- claims
Count(q, x) == Cardinality({i \in 1..Len(q) : q[i] = x})
Spawned == {worker_threads_[i] : i \in 1..Len(worker_threads_)}
InSplit(th) == pc[th] \in {"sp_lock", "sp_swap", "sp_size", "bt_body"}
\* the local deques of th's split passes, the running one and the suspended ones
RECURSIVE SuspendedDeques(_)
SuspendedDeques(fs) ==
  IF fs = <<>> THEN <<>> ELSE Head(fs).local \o SuspendedDeques(Tail(fs))
LocalDeques(th) == local_bundled_task_queue[th] \o SuspendedDeques(frames[th])

\* C1: a task accepted by AddTask is dequeued and invoked at most once, by
\* one worker, and no two workers hold the same task
C1_AtMostOnce ==
  /\ \A t \in Tasks :
       /\ Len(executed_by[t]) <= 1
       /\ executed_by[t] # <<>> => t \in AcceptedTasks /\ Count(task_queue_, t) = 0
       /\ Count(task_queue_, t) <= 1
  /\ \A w1, w2 \in Workers :
       w1 # w2 /\ pc[w1] = "run" /\ pc[w2] = "run" => arg[w1] # arg[w2]

\* two workers run two accepted tasks at the same time
C1_Witness ==
  \E w1, w2 \in Workers :
    /\ w1 # w2 /\ pc[w1] = "run" /\ pc[w2] = "run"
    /\ executed_by[arg[w1]] = <<w1>> /\ executed_by[arg[w2]] = <<w2>>

\* C2: a bundled task is invoked at most once, and is in at most one place:
\* the shared bundled_task_queue_ or the local deque of one split pass
C2_BundledAtMostOnce ==
  \A b \in Bundles :
    /\ invoked[b] <= 1
    /\ invoked[b] > 0 => b \in BundlesAccepted /\ Count(bundled_task_queue_, b) = 0
    /\ Count(bundled_task_queue_, b)
         + Cardinality({th \in Threads : Count(LocalDeques(th), b) > 0}) <= 1
    /\ \A th \in Threads : Count(LocalDeques(th), b) <= 1

\* two threads are in a split pass at once, one of them invoking a bundled
\* task while the other bundled task has been invoked already
C2_Witness ==
  \E th1, th2 \in Threads :
    /\ th1 # th2 /\ pc[th1] = "bt_body" /\ InSplit(th2)
    /\ \A b \in Bundles : invoked[b] = 1

\* C4 (as claimed): when k AddBundledTask calls are in progress at the same
\* time and are all the bundled tasks submitted so far, each is invoked with
\* max(1, N div k)
SimultaneousBatch ==
  /\ b_rejected = {}
  /\ Cardinality({p \in Producers : InAddBundledTask(p)}) = next_bundle
C4_Original ==
  \A th \in Threads :
    pc[th] = "bt_body" /\ stable_read[th] /\ SimultaneousBatch
      => thread_per_task[th] = Max(1, WorkerCount \div next_bundle)

\* C4 (amended): a bundled task is invoked with max(1, N div s), s being
\* the number of bundled tasks its split pass swapped out, 1 <= s <= k
C4_FanOutOfPass ==
  \A th \in Threads :
    pc[th] = "bt_body" /\ stable_read[th]
      => /\ swapped[th] >= 1
         /\ swapped[th] <= Cardinality(BundlesAccepted)
         /\ thread_per_task[th] = Max(1, WorkerCount \div swapped[th])

\* one pass swapped out two bundled tasks with two workers configured
C4_Witness ==
  \E th \in Threads :
    /\ pc[th] = "bt_body" /\ stable_read[th]
    /\ swapped[th] = 2 /\ WorkerCount = 2 /\ thread_per_task[th] = 1

\* C6: once an Initialize call has returned Success, WorkerCount() is the
\* worker_count of the call that found the dispatcher uninitialized, it
\* never changes again, and every Initialize that passes the argument
\* check returns Success
C6_CountFixed ==
  /\ [](init_done => effective >= 1 /\ WorkerCount = effective /\ spawners = 1)
  /\ [][init_done => worker_threads_' = worker_threads_]_vars
  /\ [][\A p \in Producers :
          pc[p] = "init_ret" /\ pc'[p] = "idle" => status' = "Success"]_vars

\* a later Initialize(m), m different from the worker count, is about to
\* return without having spawned
C6_Witness ==
  \E p \in Producers :
    /\ pc[p] = "init_ret" /\ init_done
    /\ arg[p] # effective /\ WorkerCount = effective

\* C7: of two concurrent Initialize calls on an uninitialized dispatcher
\* one spawns, both return Success, and the worker count ends as the
\* worker_count of one of them
C7_ConcurrentInitialize ==
  /\ [](/\ spawners <= 1
        /\ WorkerCount <= effective
        /\ (spawners = 1 /\ ~Spawning => WorkerCount = effective)
        /\ \A p, q \in Producers :
             p # q /\ pc[p] = "init_ret" /\ InInitialize(q) /\ ~init_done
               => WorkerCount \in {arg[p], arg[q]} /\ pc[q] = "init_lock")
  /\ [][\A p \in Producers :
          InInitialize(p) /\ ~InInitialize(p)' => status' = "Success"]_vars

\* Initialize(a) has spawned a workers while Initialize(b), b # a, waits
C7_Witness ==
  \E p, q \in Producers :
    /\ p # q /\ pc[p] = "init_ret" /\ pc[q] = "init_lock" /\ ~init_done
    /\ arg[p] # arg[q] /\ WorkerCount = arg[p]

\* C8: AddTask and AddBundledTask with no worker return Unavailable and
\* touch no queue; the rejected callable is never enqueued nor invoked
C8_Unavailable ==
  /\ [](/\ \A t \in rejected :
             Count(task_queue_, t) = 0 /\ executed_by[t] = <<>>
        /\ \A b \in b_rejected :
             /\ Count(bundled_task_queue_, b) = 0
             /\ \A th \in Threads : Count(local_bundled_task_queue[th], b) = 0
             /\ invoked[b] = 0)
  /\ [][WorkerCount = 0 /\ (next_task' # next_task \/ next_bundle' # next_bundle)
          => /\ status' = "UNAVAILABLE"
             /\ UNCHANGED <<shared, locals, executed_by, invoked>>
             /\ next_task' # next_task => next_task' \in rejected'
             /\ next_bundle' # next_bundle => next_bundle' \in b_rejected']_vars

\* a task and a bundled task were rejected, and after a later Initialize
\* another task has run
C8_Witness ==
  /\ rejected # {} /\ b_rejected # {}
  /\ WorkerCount > 0 /\ Finished # {}

\* C9: Initialize(0) returns InvalidArgument and changes nothing; while
\* every call so far was invalid there is no worker, and a later valid
\* call spawns its worker_count
C9_InvalidArgument ==
  /\ [](/\ Cardinality(invalid_at) = init_calls => WorkerCount = 0
        /\ init_done /\ invalid_at # {} => WorkerCount = effective /\ effective >= 1)
  /\ [][\A p \in Producers :
          InitializeCall(p, 0)
            => /\ status' = "INVALID_ARG"
               /\ UNCHANGED <<shared, locals, effective, spawners, init_done>>]_vars

\* the first Initialize call was Initialize(0), a later one spawned
C9_Witness ==
  /\ 1 \in invalid_at /\ init_done
  /\ WorkerCount = effective /\ WorkerCount >= 1

\* C10: tasks are numbered in the order of their AddTask calls; a task is
\* dequeued only after every accepted task submitted before it, and with a
\* single worker only after every such task has returned
C10_Fifo ==
  \A t1, t2 \in Tasks :
    t1 \in AcceptedTasks /\ t2 \in AcceptedTasks /\ t1 < t2 /\ executed_by[t2] # <<>>
      => /\ executed_by[t1] # <<>>
         /\ effective = 1 => t1 \in Finished

\* two workers: the later task was dequeued while the earlier one still runs
C10_Witness ==
  \E t1, t2 \in Tasks :
    /\ t1 < t2 /\ t1 \in Running /\ t2 \in Running
    /\ next_task > t2

\* C3: a task accepted before the destructor began is eventually run to
\* completion (again and again every such task has returned; a task that
\* has returned stays so), and is not in task_queue_ once every worker has
\* terminated.  The tasks are the accepted callables that hold a target.
AllTerminated == Spawned # {} /\ ~Spawning /\ \A w \in Spawned : pc[w] = "done"
C3_EventuallyExecuted ==
  /\ [](AllTerminated =>
          \A t \in AcceptedBeforeShutdown : Count(task_queue_, t) = 0 /\ t \in Finished)
  /\ []<>(AcceptedBeforeShutdown \subseteq Finished)

\* C5: the destructor puts one sentinel per worker; a worker terminates
\* only by consuming one of them, every worker does, none is left over,
\* the destructor returns, and no task is dequeued after it has returned
C5_Shutdown ==
  /\ [](dtor_pc = "alive" => \A w \in Workers : pc[w] # "done")
  /\ [](dtor_pc = "gone" =>
          /\ \A w \in Spawned : pc[w] = "done"
          /\ Count(task_queue_, Null) = 0)
  /\ [][dtor_pc = "gone" =>
          executed_by' = executed_by /\ \A w \in Workers : pc'[w] = pc[w]]_vars
  /\ (dtor_pc # "alive") ~> (dtor_pc = "gone")

\* the tasks handed to AddTask by the body of bundled task b, and the
\* counter they increment: one increment per sub-task that has run
Subs(b) == {t \in 1..next_task : sub_of[t] = b}
Counter(b) == Cardinality(Subs(b) \cap Finished)
InBody(b) ==
  \E th \in Threads :
    \/ pc[th] = "bt_body" /\ Head(local_bundled_task_queue[th]) = b
    \/ \E i \in 1..Len(frames[th]) : Head(frames[th][i].local) = b

Stranded ==
  /\ bundled_task_queue_ # <<>>
  /\ Empty(task_queue_)
  /\ Spawned # {} /\ ~Spawning
  /\ \A w \in Spawned : pc[w] = "get"
  /\ \A p \in Producers : pc[p] = "idle"

\* C12: while the destructor has not begun, no bundled task is stranded in
\* bundled_task_queue_, and every accepted bundled task is eventually
\* invoked
C12_BundlesEventuallyInvoked ==
  /\ [](dtor_pc = "alive" => ~Stranded)
  /\ \A b \in Bundles :
       (b \in BundlesAccepted) ~> (invoked[b] > 0 \/ dtor_pc # "alive")

\* C13: every bundled task of a split pass that swapped out s bundled
\* tasks is invoked with the same fan-out max(1, N div s), N being the
\* worker_count of the Initialize call that spawned the workers, so that
\* 1 <= fan-out <= N, also when s > N and while Initialize is spawning
C13_FanOut ==
  /\ [](\A th \in Threads :
          pc[th] = "bt_body"
            => /\ swapped[th] >= 1
               /\ thread_per_task[th] = Max(1, effective \div swapped[th])
               /\ 1 <= thread_per_task[th] /\ thread_per_task[th] <= effective)
  /\ [][\A th \in Threads :
          pc[th] = "bt_body" /\ pc'[th] = "bt_body"
            => thread_per_task'[th] = thread_per_task[th]]_vars

\* C14: mtx_ is held only for the push_back and for the swap, never while
\* a bundled task runs; its holder can always take its next step, and a
\* thread waiting for mtx_ (also one calling AddBundledTask from the body
\* of a bundled task) is never the holder nor waited for by the holder
C14_NoDeadlock ==
  /\ mtx_ # NoThread =>
       /\ pc[mtx_] \in {"ab_push", "sp_swap"}
       /\ ENABLED (AddBundledTaskPush(mtx_) \/ SplitSwap(mtx_))
  /\ \A th \in Threads :
       /\ pc[th] = "bt_body" => mtx_ # th
       /\ pc[th] \in {"ab_lock", "sp_lock"} => mtx_ # th
       /\ Nested(th) /\ pc[th] = "ab_lock" /\ mtx_ = NoThread
            => ENABLED AddBundledTaskLock(th)

\* the body of a bundled task, invoked by a split pass, has called
\* AddBundledTask and holds mtx_ for its push_back, after an AddTask
C14_Witness ==
  \E th \in Threads :
    /\ Nested(th) /\ pc[th] = "ab_push" /\ mtx_ = th
    /\ Outer(th).cnt > 0

\* C15: after its push_back AddBundledTask goes on to a split pass exactly
\* when it sees task_queue_ empty; when it sees it non-empty it returns
\* Success, invokes nothing and leaves both queues as they are; the
\* push_back itself appends the bundled task and touches nothing else
C15_SplitOnlyIfEmpty ==
  /\ [][\A th \in Threads :
          pc[th] = "ab_empty" /\ pc'[th] # "ab_empty"
            => /\ UNCHANGED <<task_queue_, bundled_task_queue_, worker_threads_, invoked>>
               /\ IF Empty(task_queue_)
                    THEN pc'[th] = "sp_lock"
                    ELSE pc'[th] \in {"idle", "bt_body"} /\ status' = "Success"]_vars
  /\ [][\A th \in Threads :
          pc[th] = "ab_push" /\ pc'[th] # "ab_push"
            => /\ bundled_task_queue_' = Append(bundled_task_queue_, arg[th])
               /\ pc'[th] = "ab_empty"
               /\ UNCHANGED <<task_queue_, worker_threads_, invoked>>]_vars
  /\ [][\A th \in Threads :
          pc[th] # "sp_lock" /\ pc'[th] = "sp_lock"
            => Empty(task_queue_) /\ pc[th] \in {"ab_empty", "top"}]_vars

\* an AddBundledTask call has returned Success without splitting: its
\* bundled task waits in bundled_task_queue_ while task_queue_ holds a task
C15_Witness ==
  \E b \in BundlesReturned :
    /\ Count(bundled_task_queue_, b) = 1 /\ invoked[b] = 0
    /\ ~Empty(task_queue_) /\ dtor_pc = "alive"
    /\ \A th \in Threads : ~InSplit(th)

\* the place of bundled task b in the order of the push_backs of line 102
Pos(b) == CHOOSE i \in 1..Len(pushed) : pushed[i] = b
InPushOrder(q) ==
  \A i, j \in 1..Len(q) :
    i < j => Count(pushed, q[i]) = 1 /\ Count(pushed, q[j]) = 1 /\ Pos(q[i]) < Pos(q[j])

\* C16: a split pass invokes the bundled tasks it swapped out one after
\* another in the order of their push_back: its local deque is in that order,
\* the bundled task invoked is always the front of it, the ones behind it are
\* not invoked yet, and the next one invoked is the one pushed right after
C16_PassOrder ==
  /\ [](/\ InPushOrder(bundled_task_queue_)
        /\ \A th \in Threads :
             /\ InPushOrder(local_bundled_task_queue[th])
             /\ \A i \in 1..Len(frames[th]) : InPushOrder(frames[th][i].local))
  /\ [][\A b \in Bundles :
          invoked'[b] # invoked[b]
            => \E th \in Threads :
                 /\ pc'[th] = "bt_body"
                 /\ local_bundled_task_queue'[th] # <<>>
                 /\ Head(local_bundled_task_queue'[th]) = b
                 /\ \A i \in 2..Len(local_bundled_task_queue'[th]) :
                      invoked'[local_bundled_task_queue'[th][i]] = 0]_vars
  /\ [][\A th \in Threads :
          /\ pc[th] = "bt_body" /\ pc'[th] = "bt_body"
          /\ frames'[th] = frames[th]
          /\ local_bundled_task_queue'[th] # local_bundled_task_queue[th]
          => /\ local_bundled_task_queue'[th] = Tail(local_bundled_task_queue[th])
             /\ Pos(Head(local_bundled_task_queue'[th])) =
                  Pos(Head(local_bundled_task_queue[th])) + 1
             /\ invoked'[Head(local_bundled_task_queue'[th])] =
                  invoked[Head(local_bundled_task_queue'[th])] + 1]_vars

\* two split passes: the bundled task pushed later has been invoked by one
\* pass while the one pushed earlier waits, not invoked, in the other's deque
C16_Witness ==
  \E th \in Threads : \E b1, b2 \in Bundles :
    /\ Count(pushed, b1) = 1 /\ Count(pushed, b2) = 1 /\ Pos(b1) < Pos(b2)
    /\ pc[th] = "sp_size" /\ local_bundled_task_queue[th] = <<b1>>
    /\ invoked[b1] = 0 /\ invoked[b2] = 1

\* one split pass has invoked two bundled tasks in the order of their push_back
C16_PassOfTwo ==
  \E th \in Threads :
    /\ pc[th] = "bt_body" /\ swapped[th] = 2
    /\ Len(local_bundled_task_queue[th]) = 1
    /\ Pos(Head(local_bundled_task_queue[th])) = 2
    /\ \A b \in Bundles : invoked[b] = 1

\* C17: a split pass that finds bundled_task_queue_ empty at line 118 swaps
\* nothing, invokes nothing and returns: its steps leave
\* bundled_task_queue_, task_queue_, worker_threads_ and the invocation
\* counts as they are, and its local deque stays empty
C17_EmptyPassNoOp ==
  /\ [](\A th \in Threads :
          pc[th] = "sp_size"
            => (local_bundled_task_queue[th] = <<>> <=> swapped[th] = 0))
  /\ [][\A th \in Threads :
          pc[th] = "sp_swap" /\ pc'[th] # "sp_swap" /\ bundled_task_queue_ = <<>>
            => /\ pc'[th] = "sp_size"
               /\ local_bundled_task_queue'[th] = <<>>
               /\ mtx_' = NoThread
               /\ UNCHANGED <<bundled_task_queue_, task_queue_, worker_threads_,
                              invoked>>]_vars
  /\ [][\A th \in Threads :
          pc[th] = "sp_size" /\ pc'[th] # "sp_size" /\ swapped[th] = 0
            => /\ pc'[th] = (IF Nested(th) THEN "bt_body"
                              ELSE IF th \in Workers THEN "get" ELSE "idle")
               /\ UNCHANGED <<bundled_task_queue_, task_queue_, worker_threads_,
                              mtx_, invoked>>]_vars

\* a redundant attempt: th has found bundled_task_queue_ empty while another
\* thread holds the batch it swapped out before
C17_Witness ==
  \E th, th2 \in Threads :
    /\ th # th2
    /\ pc[th] = "sp_size" /\ swapped[th] = 0 /\ local_bundled_task_queue[th] = <<>>
    /\ pc[th2] \in {"sp_size", "bt_body"} /\ swapped[th2] >= 1
    /\ bundled_task_queue_ = <<>>

\* the workers whose WorkThread loop has not been left
RunningLoops == {w \in Spawned : pc[w] # "done"}

\* C18: until the destructor begins, the number of running worker loops is
\* WorkerCount(): nothing AddTask accepted makes a worker leave its loop
C18_NeverSentinel ==
  dtor_pc = "alive" => Cardinality(RunningLoops) = WorkerCount

\* C19: shutdown does not drain bundled_task_queue_.  A worker that sees
\* task_queue_ non-empty goes to Get without a split pass, no step of the
\* destructor touches bundled_task_queue_ or invokes a bundled task, and
\* once the destructor has returned with no thread left in AddBundledTask or
\* a split pass, what is in bundled_task_queue_ stays there, never invoked
C19_NotDrained ==
  /\ [][\A w \in Workers :
          pc[w] = "top" /\ pc'[w] # "top" /\ ~Empty(task_queue_)
            => pc'[w] = "get" /\ UNCHANGED <<bundled_task_queue_, invoked>>]_vars
  /\ [][dtor_pc' # dtor_pc \/ dtor_cnt' # dtor_cnt
          => UNCHANGED <<bundled_task_queue_, invoked, pc>>]_vars
  /\ [][/\ dtor_pc = "gone"
        /\ \A th \in Threads : ~InAddBundledTask(th)
        => /\ UNCHANGED <<bundled_task_queue_, invoked>>
           /\ \A th \in Threads : ~InAddBundledTask(th)']_vars

\* the destructor has returned and every worker has terminated on a
\* sentinel, while a bundled task accepted before the destructor began is
\* still in bundled_task_queue_, not invoked
C19_Witness ==
  /\ dtor_pc = "gone"
  /\ Spawned # {} /\ \A w \in Spawned : pc[w] = "done"
  /\ \A th \in Threads : ~InAddBundledTask(th)
  /\ \E b \in b_at_shutdown : invoked[b] = 0 /\ Count(bundled_task_queue_, b) = 1

====
